---- MODULE Spec2Model ----
(***************************************************************************)
(* Session-authentication guard of meilisearch-ui: the auth library       *)
(* (isAuthRequired, isAuthenticated, login, logout), the root route's     *)
(* beforeLoad gate, the useAuthGuard hook and the AuthGuard component,    *)
(* the login form handler and the header's logout handler.                *)
(*                                                                         *)
(* JavaScript values are records [t, v]: t is the type tag and v, for a   *)
(* string, its content as a sequence of tokens ("" is <<>>, "/login" is   *)
(* <<"/", "login">>), so that ===, truthiness and startsWith are computed *)
(* as JavaScript computes them.                                           *)
(***************************************************************************)
EXTENDS Integers, Sequences, FiniteSets, TLC

VARIABLES
    env,             \* import.meta.env: VITE_AUTH_USERNAME, VITE_AUTH_PASSWORD
    cryptoSubtle,    \* whether the platform provides crypto.subtle.digest
    storageAvailable,\* whether window.sessionStorage can be accessed (else it throws)
    siblingStorage,  \* the sessionStorage of a second tab of the application
    logoutModal,     \* whether the header's logout confirmation is open
    sessionStorage,  \* this tab's sessionStorage: key -> value or null
    mirror,          \* useAppStore().isAuthenticated
    loginTask,       \* the login() call in flight (suspended at its await)
    flagBy,          \* who wrote the session key last
    location,        \* the committed location: pathname and search.redirect
    pendingNav,      \* the navigation the router is resolving
    guard,           \* the mounted AuthGuard: the skip flag and cleanup of its effect,
                     \* and whether its last render returned its children
    timers,          \* the active setInterval ids
    intervalRef,     \* useAuthGuard's intervalRef.current
    listeners,       \* the registered "storage" listeners
    form             \* the login form: loading and error

\* What the auth library, the gate, the guard and the login form do not write:
\* the configuration, the platform, the second tab and the header's dialog.
config == <<env, cryptoSubtle, storageAvailable, siblingStorage, logoutModal>>
session == <<sessionStorage, flagBy>>
subscription == <<guard, timers, intervalRef, listeners>>
vars == <<env, cryptoSubtle, storageAvailable, siblingStorage, logoutModal, sessionStorage, mirror, loginTask, flagBy, location,
          pendingNav, guard, timers, intervalRef, listeners, form>>

----------------------------------------------------------------------------
(* JavaScript values *)

Str(s) == [t |-> "string", v |-> s]
Null == [t |-> "null", v |-> <<>>]
Undefined == [t |-> "undefined", v |-> <<>>]

\* ToBoolean: undefined, null and "" are falsy, every other string is truthy.
Truthy(x) == x.t = "string" /\ x.v # <<>>

----------------------------------------------------------------------------
(* Inputs *)

ConfigUsernames == {Undefined, Str(<<>>), Str(<<"admin">>)}
ConfigPasswords == {Undefined, Str(<<>>), Str(<<"secret">>)}
Usernames == {Str(<<"admin">>), Str(<<"root">>)}
Passwords == {Str(<<"secret">>), Str(<<"hunter2">>)}

AUTH_SESSION_KEY == Str(<<"meilisearch-ui-auth">>)
OtherKey == Str(<<"theme">>)
StorageKeys == {AUTH_SESSION_KEY, OtherKey}
Marker == Str(<<"authenticated">>)
\* What the session key can hold: nothing, the marker, or a foreign value.
StoredValues == {Null, Marker, Str(<<"true">>)}

LOGIN == Str(<<"/", "login">>)
HOME == Str(<<"/">>)
INSTANCE_PAGE == Str(<<"/", "ins", "/", "0">>)
Pathnames == {LOGIN, HOME, INSTANCE_PAGE}
\* What ?redirect= can carry in a URL the user opens.
RedirectParams == {Null, Str(<<>>), INSTANCE_PAGE, Str(<<"https:", "/", "/", "evil.example">>)}

----------------------------------------------------------------------------
(* src/lib/auth *)

getItem(k) == sessionStorage[k]

\* crypto.subtle.digest("SHA-256", ...) as hex: a digest is not the password,
\* and distinct passwords of the input sets have distinct digests.
hashPassword(password) == Str(<<"sha256">> \o password.v)

isAuthRequired_OrMutant == Truthy(env.VITE_AUTH_USERNAME) \/ Truthy(env.VITE_AUTH_PASSWORD)
isAuthRequired == Truthy(env.VITE_AUTH_USERNAME) /\ Truthy(env.VITE_AUTH_PASSWORD)

isAuthenticated_NoOpenMutant == getItem(AUTH_SESSION_KEY) = Marker
isAuthenticated_MirrorMutant == IF ~isAuthRequired THEN TRUE ELSE mirror
isAuthenticated_TruthyMutant == IF ~isAuthRequired THEN TRUE ELSE Truthy(getItem(AUTH_SESSION_KEY))
isAuthenticated == IF ~isAuthRequired THEN TRUE ELSE getItem(AUTH_SESSION_KEY) = Marker
\* isAuthenticated() has no try/catch: when window.sessionStorage cannot be
\* accessed the read throws, and so does the call (not when authentication is
\* not required: it returns before the read).
isAuthenticatedThrows == isAuthRequired /\ ~storageAvailable

\* login's comparison, after both digests are there.
credentialsMatch_EitherMutant(username, password) ==
    \/ username = env.VITE_AUTH_USERNAME
    \/ hashPassword(password) = hashPassword(env.VITE_AUTH_PASSWORD)
credentialsMatch(username, password) ==
    LET usernameMatch == username = env.VITE_AUTH_USERNAME
        passwordMatch == hashPassword(password) = hashPassword(env.VITE_AUTH_PASSWORD)
    IN  usernameMatch /\ passwordMatch

Idle == [pc |-> "idle", username |-> Null, password |-> Null, result |-> FALSE,
         caller |-> "none"]

\* login(username, password), up to its await: open access sets the marker and
\* resolves; otherwise the two digests are started (a platform without
\* crypto.subtle throws there, and the promise rejects).
loginStart_NoOpenMutant(username, password, caller) ==
    /\ loginTask.pc = "idle"
    /\ IF ~isAuthRequired
       THEN /\ loginTask' = [pc |-> "resolved", username |-> username,
                             password |-> password, result |-> TRUE,
                             caller |-> caller]
            /\ UNCHANGED <<sessionStorage, flagBy>>
       ELSE /\ loginTask' = [pc |-> IF cryptoSubtle THEN "hashing" ELSE "rejected",
                             username |-> username, password |-> password,
                             result |-> FALSE, caller |-> caller]
            /\ UNCHANGED <<sessionStorage, flagBy>>
loginStart(username, password, caller) ==
    /\ loginTask.pc = "idle"
    /\ IF ~isAuthRequired
       THEN IF storageAvailable
            THEN /\ sessionStorage' = [sessionStorage EXCEPT ![AUTH_SESSION_KEY] = Marker]
                 /\ flagBy' = "login"
                 /\ loginTask' = [pc |-> "resolved", username |-> username,
                                  password |-> password, result |-> TRUE,
                                  caller |-> caller]
            ELSE /\ loginTask' = [pc |-> "rejected", username |-> username,
                                  password |-> password, result |-> FALSE,
                                  caller |-> caller]
                 /\ UNCHANGED <<sessionStorage, flagBy>>
       ELSE /\ loginTask' = [pc |-> IF cryptoSubtle THEN "hashing" ELSE "rejected",
                             username |-> username, password |-> password,
                             result |-> FALSE, caller |-> caller]
            /\ UNCHANGED <<sessionStorage, flagBy>>

\* login, resumed after Promise.all: compare, set the marker on a match.
loginResume_NoSetMutant ==
    /\ loginTask.pc = "hashing"
    /\ loginTask' = [loginTask EXCEPT !.pc = "resolved",
                        !.result = credentialsMatch(loginTask.username, loginTask.password)]
    /\ UNCHANGED <<sessionStorage, flagBy>>
loginResume ==
    /\ loginTask.pc = "hashing"
    /\ IF credentialsMatch(loginTask.username, loginTask.password)
       THEN IF storageAvailable
            THEN /\ sessionStorage' = [sessionStorage EXCEPT ![AUTH_SESSION_KEY] = Marker]
                 /\ flagBy' = "login"
                 /\ loginTask' = [loginTask EXCEPT !.pc = "resolved", !.result = TRUE]
            ELSE /\ loginTask' = [loginTask EXCEPT !.pc = "rejected"]
                 /\ UNCHANGED <<sessionStorage, flagBy>>
       ELSE /\ loginTask' = [loginTask EXCEPT !.pc = "resolved", !.result = FALSE]
            /\ UNCHANGED <<sessionStorage, flagBy>>

\* logout(): sessionStorage.removeItem(AUTH_SESSION_KEY); the storage it leaves.
removeItem(storage, k) == [storage EXCEPT ![k] = Null]
logoutStorage_OnlyMarkerMutant(storage) ==
    IF storage[AUTH_SESSION_KEY] = Marker THEN removeItem(storage, AUTH_SESSION_KEY)
    ELSE storage
logoutStorage(storage) == removeItem(storage, AUTH_SESSION_KEY)
logout ==
    IF storageAvailable
    THEN /\ sessionStorage' = logoutStorage(sessionStorage)
         /\ flagBy' = "logout"
    ELSE UNCHANGED <<sessionStorage, flagBy>>    \* removeItem throws

\* validateSession(): its return value and the storage it leaves (an invalid
\* session is cleaned up by logout()).
validateSession_NoCleanupMutant ==
    IF ~isAuthRequired THEN [result |-> TRUE, storage |-> sessionStorage]
    ELSE [result |-> isAuthenticated, storage |-> sessionStorage]
validateSession ==
    IF ~isAuthRequired THEN [result |-> TRUE, storage |-> sessionStorage]
    ELSE LET isValid == isAuthenticated
         IN  [result |-> isValid,
              storage |-> IF ~isValid THEN logoutStorage(sessionStorage) ELSE sessionStorage]

\* getRedirectUrl(): the ?redirect= of the current URL when it starts with the
\* base URL, else the base URL.
StartsWith(s, prefix) ==
    /\ Len(prefix.v) <= Len(s.v)
    /\ SubSeq(s.v, 1, Len(prefix.v)) = prefix.v
getRedirectUrl_NoValidationMutant ==
    LET redirect == location.redirect
        baseUrl == IF Truthy(env.BASE_URL) THEN env.BASE_URL ELSE HOME
    IN  IF Truthy(redirect) THEN redirect ELSE baseUrl
getRedirectUrl_AlwaysBaseMutant ==
    IF Truthy(env.BASE_URL) THEN env.BASE_URL ELSE HOME
getRedirectUrl ==
    LET redirect == location.redirect
        baseUrl == IF Truthy(env.BASE_URL) THEN env.BASE_URL ELSE HOME
    IN  IF Truthy(redirect) /\ StartsWith(redirect, baseUrl) THEN redirect ELSE baseUrl

----------------------------------------------------------------------------
(* src/routes/__root.tsx: the root route's beforeLoad *)

NoNav == [to |-> Null, redirect |-> Null, replace |-> FALSE, by |-> "none"]
Nav(to, redirect, replace, by) ==
    [to |-> to, redirect |-> redirect, replace |-> replace, by |-> by]

Allow == [kind |-> "allow", to |-> Null, redirect |-> Null]
Redirect(to, redirect) == [kind |-> "redirect", to |-> to, redirect |-> redirect]
Error == [kind |-> "error", to |-> Null, redirect |-> Null]

\* beforeLoad({location}): returns (Allow) or throws redirect(...).
beforeLoad_NoReturnPathMutant(pathname) ==
    IF isAuthRequired /\ ~isAuthenticated
    THEN IF pathname = LOGIN THEN Allow ELSE Redirect(LOGIN, Null)
    ELSE IF pathname = LOGIN /\ isAuthenticated THEN Redirect(HOME, Null) ELSE Allow
beforeLoad_NoLoginExemptMutant(pathname) ==
    IF isAuthRequired /\ ~isAuthenticated
    THEN Redirect(LOGIN, pathname)
    ELSE IF pathname = LOGIN /\ isAuthenticated THEN Redirect(HOME, Null) ELSE Allow
beforeLoad_NoHomeRedirectMutant(pathname) ==
    IF isAuthRequired /\ ~isAuthenticated
    THEN IF pathname = LOGIN THEN Allow ELSE Redirect(LOGIN, pathname)
    ELSE Allow
beforeLoad_ExemptHomeMutant(pathname) ==
    IF isAuthRequired /\ ~isAuthenticated
    THEN IF pathname = HOME THEN Allow ELSE Redirect(LOGIN, pathname)
    ELSE IF pathname = LOGIN /\ isAuthenticated THEN Redirect(HOME, Null) ELSE Allow
beforeLoad_TruthyFlagMutant(pathname) ==
    LET authenticated == ~isAuthRequired \/ Truthy(getItem(AUTH_SESSION_KEY))
    IN  IF isAuthRequired /\ ~authenticated
        THEN IF pathname = LOGIN THEN Allow ELSE Redirect(LOGIN, pathname)
        ELSE IF pathname = LOGIN /\ authenticated THEN Redirect(HOME, Null) ELSE Allow
beforeLoad(pathname) ==
    IF isAuthenticatedThrows THEN Error
    ELSE IF isAuthRequired /\ ~isAuthenticated
    THEN IF pathname = LOGIN THEN Allow ELSE Redirect(LOGIN, pathname)
    ELSE IF pathname = LOGIN /\ isAuthenticated THEN Redirect(HOME, Null) ELSE Allow

----------------------------------------------------------------------------
(* src/hooks/useAuthGuard.ts and src/components/auth/AuthGuard.tsx *)

\* A handler works on the store's flag and the router; calls lists, in order,
\* the calls it has made to them.
Store == [mirror |-> mirror, nav |-> pendingNav, calls |-> <<>>]
setAuthenticated(value, st) ==
    [st EXCEPT !.mirror = value, !.calls = Append(@, "setAuthenticated")]
navigate(nav, st) ==
    [st EXCEPT !.nav = nav, !.calls = Append(@, "navigate")]

\* checkAuth(), on the store's flag and the router: an invalid session sets the
\* flag to false and replaces the location by /login.
\* (trigger names the caller: "mount", "interval" or "storage".)
checkAuth_NoNavigateMutant(trigger, st) ==
    IF isAuthRequired /\ ~isAuthenticated THEN setAuthenticated(FALSE, st) ELSE st
checkAuth_MirrorMutant(trigger, st) ==
    IF isAuthRequired /\ ~st.mirror
    THEN navigate(Nav(LOGIN, Null, TRUE, trigger), setAuthenticated(FALSE, st))
    ELSE st
checkAuth_NavigateFirstMutant(trigger, st) ==
    IF isAuthRequired /\ ~isAuthenticated
    THEN setAuthenticated(FALSE, navigate(Nav(LOGIN, Null, TRUE, trigger), st))
    ELSE st
checkAuth_ResyncMutant(trigger, st) ==
    IF isAuthRequired /\ ~isAuthenticated
    THEN navigate(Nav(LOGIN, Null, TRUE, trigger), setAuthenticated(FALSE, st))
    ELSE setAuthenticated(TRUE, st)
checkAuth(trigger, st) ==
    IF isAuthenticatedThrows THEN st    \* the exception leaves checkAuth
    ELSE IF isAuthRequired /\ ~isAuthenticated
    THEN navigate(Nav(LOGIN, Null, TRUE, trigger), setAuthenticated(FALSE, st))
    ELSE st

\* handleStorageChange(e)
handleStorageChange_AnyKeyMutant(key, st) == checkAuth("storage", st)
handleStorageChange(key, st) ==
    IF key = AUTH_SESSION_KEY \/ key = Null THEN checkAuth("storage", st) ELSE st

\* AuthGuard's own effect: sync the store, redirect unless on the login page.
authGuardEffect(isLoginPage, st) ==
    IF isAuthenticatedThrows THEN st
    ELSE IF isAuthRequired
    THEN LET currentlyAuthenticated == isAuthenticated
             synced == setAuthenticated(currentlyAuthenticated, st)
         IN  IF ~currentlyAuthenticated /\ ~isLoginPage
             THEN navigate(Nav(LOGIN, Null, TRUE, "authGuard"), synced)
             ELSE synced
    ELSE setAuthenticated(TRUE, st)

\* setInterval's handle: an id no live timer, listener or reference holds.
MaxTimerId == 3
TimerIds == 1..MaxTimerId
FreshId == CHOOSE id \in TimerIds : id \notin (timers \cup listeners \cup {intervalRef})

\* AuthGuard's render for a location: TRUE when it returns its children, FALSE
\* when it returns null.
AuthGuardRender(onLoginPage) ==
    IF ~isAuthRequired THEN TRUE
    ELSE IF onLoginPage THEN TRUE
    ELSE IF isAuthenticated THEN TRUE
    ELSE FALSE

Unmounted == [mounted |-> FALSE, skip |-> FALSE, cleanup |-> 0, children |-> FALSE]

----------------------------------------------------------------------------
(* Operations *)

FormInit == [loading |-> FALSE, error |-> FALSE]
NoLocation == [pathname |-> Null, redirect |-> Null]
isLoginPage == location.pathname = LOGIN

\* The effect's cleanup: clearInterval(intervalRef.current), removeEventListener.
cleanupEffect_NoClearIntervalMutant(sub) ==
    IF sub.cleanup = 0 THEN sub
    ELSE [sub EXCEPT !.listeners = @ \ {sub.cleanup},
                     !.cleanup = 0]
cleanupEffect_KeepListenerMutant(sub) ==
    IF sub.cleanup = 0 THEN sub
    ELSE [sub EXCEPT !.timers = IF sub.intervalRef # 0 THEN @ \ {sub.intervalRef} ELSE @,
                     !.cleanup = 0]
cleanupEffect(sub) ==
    IF sub.cleanup = 0 THEN sub
    ELSE [sub EXCEPT !.timers = IF sub.intervalRef # 0 THEN @ \ {sub.intervalRef} ELSE @,
                     !.listeners = @ \ {sub.cleanup},
                     !.cleanup = 0]

\* useAuthGuard's effect body, run with skipMonitoring = skip.
useAuthGuardEffect_ArmOnLoginMutant(skip, sub) ==
    [st |-> checkAuth("mount", sub.st),
     timers |-> sub.timers \cup {FreshId},
     intervalRef |-> FreshId,
     listeners |-> sub.listeners \cup {FreshId},
     cleanup |-> FreshId]
\* The effect's three statements, each on the subscriptions and the store.
mountCheck(sub) == [sub EXCEPT !.st = checkAuth("mount", @)]
setIntervalCall(sub) ==
    [sub EXCEPT !.timers = @ \cup {FreshId},
                !.intervalRef = FreshId,
                !.st = [@ EXCEPT !.calls = Append(@, "setInterval")]]
addEventListenerCall(sub) ==
    [sub EXCEPT !.listeners = @ \cup {FreshId},
                !.cleanup = FreshId,
                !.st = [@ EXCEPT !.calls = Append(@, "addEventListener")]]

useAuthGuardEffect_NoMountCheckMutant(skip, sub) ==
    IF skip THEN sub
    ELSE addEventListenerCall(setIntervalCall(sub))
useAuthGuardEffect(skip, sub) ==
    IF skip THEN sub
    ELSE IF isAuthenticatedThrows THEN sub    \* thrown before setInterval
    ELSE addEventListenerCall(setIntervalCall(mountCheck(sub)))

Init ==
    /\ env \in [VITE_AUTH_USERNAME : ConfigUsernames, VITE_AUTH_PASSWORD : ConfigPasswords,
                BASE_URL : {HOME}]
    /\ cryptoSubtle \in BOOLEAN
    /\ ~cryptoSubtle => isAuthRequired    \* the digest is used only then
    /\ storageAvailable = TRUE
    /\ siblingStorage = [k \in StorageKeys |-> Null]
    /\ logoutModal = FALSE
    /\ sessionStorage = [k \in StorageKeys |-> Null]
    /\ mirror = FALSE
    /\ loginTask = Idle
    /\ flagBy = "none"
    /\ location = NoLocation
    /\ \E to \in Pathnames : pendingNav = Nav(to, Null, FALSE, "load")
    /\ guard = Unmounted
    /\ timers = {}
    /\ intervalRef = 0
    /\ listeners = {}
    /\ form = FormInit

\* A collaborator calls login(username, password).
LoginCall ==
    \E username \in Usernames, password \in Passwords :
        /\ loginStart(username, password, "api")
        /\ UNCHANGED <<config, mirror, location, pendingNav, subscription, form>>

\* Login.handleSubmit(values), up to its await of login().
Submit ==
    \E username \in Usernames, password \in Passwords :
        /\ isLoginPage
        /\ ~form.loading
        /\ loginStart(username, password, "form")
        /\ form' = [loading |-> TRUE, error |-> FALSE]
        /\ UNCHANGED <<config, mirror, location, pendingNav, subscription>>

\* The digests are there and login runs to its return.
LoginResume ==
    /\ loginResume
    /\ UNCHANGED <<config, mirror, location, pendingNav, subscription, form>>

\* The collaborator's await receives login's result (or its rejection).
LoginSettle ==
    /\ loginTask.pc \in {"resolved", "rejected"}
    /\ loginTask.caller = "api"
    /\ loginTask' = Idle
    /\ UNCHANGED <<config, session, mirror, location, pendingNav, subscription, form>>

\* Login.handleSubmit, resumed with login's result (success) or its rejection:
\* its calls on the store's flag and the router.
handleSubmitResumed_NavigateFirstMutant(st) ==
    IF loginTask.pc = "resolved" /\ loginTask.result
    THEN setAuthenticated(TRUE, navigate(Nav(getRedirectUrl, Null, TRUE, "login"), st))
    ELSE setAuthenticated(FALSE, st)
handleSubmitResumed(st) ==
    IF loginTask.pc = "resolved" /\ loginTask.result
    THEN navigate(Nav(getRedirectUrl, Null, TRUE, "login"), setAuthenticated(TRUE, st))
    ELSE setAuthenticated(FALSE, st)

\* Login.handleSubmit, resumed with login's result: try / catch / finally.
SubmitSettle_NoFinallyMutant ==
    /\ loginTask.pc \in {"resolved", "rejected"}
    /\ loginTask.caller = "form"
    /\ loginTask' = Idle
    /\ IF loginTask.pc = "resolved"
       THEN IF loginTask.result
            THEN /\ mirror' = TRUE
                 /\ pendingNav' = Nav(getRedirectUrl, Null, TRUE, "login")
                 /\ form' = [form EXCEPT !.loading = FALSE]
            ELSE /\ mirror' = FALSE
                 /\ form' = [loading |-> FALSE, error |-> TRUE]
                 /\ UNCHANGED pendingNav
       ELSE /\ mirror' = FALSE
            /\ form' = [form EXCEPT !.error = TRUE]
            /\ UNCHANGED pendingNav
    /\ UNCHANGED <<config, session, location, subscription>>
SubmitSettle ==
    /\ loginTask.pc \in {"resolved", "rejected"}
    /\ loginTask.caller = "form"
    /\ loginTask' = Idle
    /\ LET st == handleSubmitResumed(Store)
       IN  mirror' = st.mirror /\ pendingNav' = st.nav
    /\ form' = IF loginTask.pc = "resolved" /\ loginTask.result
               THEN [form EXCEPT !.loading = FALSE]
               ELSE [loading |-> FALSE, error |-> TRUE]
    /\ UNCHANGED <<config, session, location, subscription>>

\* A collaborator calls logout().
LogoutCall ==
    /\ logout
    /\ UNCHANGED <<config, mirror, loginTask, location, pendingNav, subscription, form>>

\* A collaborator calls validateSession() (the call throws where
\* isAuthenticated() or logout() throws, and then nothing is written).
ValidateSessionCall ==
    /\ IF ~storageAvailable /\ isAuthRequired
       THEN UNCHANGED <<sessionStorage, flagBy>>
       ELSE /\ sessionStorage' = validateSession.storage
            /\ flagBy' = IF validateSession.result THEN flagBy ELSE "validate"
    /\ UNCHANGED <<config, mirror, loginTask, location, pendingNav, subscription, form>>

\* Someone edits the session key in this tab's storage (DevTools, console, a
\* sibling document).
Tamper ==
    \E value \in StoredValues :
        /\ storageAvailable
        /\ sessionStorage[AUTH_SESSION_KEY] # value
        /\ sessionStorage' = [sessionStorage EXCEPT ![AUTH_SESSION_KEY] = value]
        /\ flagBy' = "tamper"
        /\ UNCHANGED <<config, mirror, loginTask, location, pendingNav, subscription, form>>

\* The user follows a link or opens a URL of the application.
UserNavigate ==
    \E to \in Pathnames, redirect \in RedirectParams :
        /\ location.pathname # Null
        /\ redirect # Null => to = LOGIN
        /\ pendingNav' = Nav(to, redirect, FALSE, "user")
        /\ UNCHANGED <<config, session, mirror, loginTask, location, subscription, form>>

\* The subscriptions left when AuthGuard is unmounted: its effect's cleanup runs.
unmountGuard ==
    cleanupEffect([st |-> Store, timers |-> timers,
                   intervalRef |-> intervalRef, listeners |-> listeners,
                   cleanup |-> guard.cleanup])

\* The router resolves the pending navigation: beforeLoad, then commit or redirect.
\* A committed location re-renders the mounted AuthGuard (useLocation).
\* An error thrown by beforeLoad (not a redirect) makes the router show the root
\* route's error component at the new location in place of its component, so
\* AuthGuard is unmounted.
RouteBeforeLoad ==
    /\ pendingNav.to # Null
    /\ LET decision == beforeLoad(pendingNav.to)
       IN  CASE decision.kind = "allow" ->
                /\ location' = [pathname |-> pendingNav.to, redirect |-> pendingNav.redirect]
                /\ pendingNav' = NoNav
                /\ form' = IF pendingNav.to = location.pathname THEN form ELSE FormInit
                /\ guard' = IF guard.mounted
                            THEN [guard EXCEPT !.children = AuthGuardRender(pendingNav.to = LOGIN)]
                            ELSE guard
                /\ UNCHANGED <<timers, intervalRef, listeners>>
             [] decision.kind = "redirect" ->
                /\ pendingNav' = Nav(decision.to, decision.redirect, TRUE, "gate")
                /\ UNCHANGED <<location, form, subscription>>
             [] decision.kind = "error" ->
                /\ location' = [pathname |-> pendingNav.to, redirect |-> pendingNav.redirect]
                /\ pendingNav' = NoNav
                /\ form' = FormInit
                /\ guard' = Unmounted
                /\ timers' = unmountGuard.timers
                /\ listeners' = unmountGuard.listeners
                /\ UNCHANGED intervalRef
    /\ UNCHANGED <<config, session, mirror, loginTask>>

\* React commits AuthGuard for the current location and runs its effects: on
\* mount, and again whenever isLoginPage has changed.
\* When isAuthenticated() throws, AuthGuard's render (off /login) or its effect
\* (on /login) throws: React unmounts the component, running the cleanup of the
\* effect that was live, and nothing is set or navigated.
GuardEffects ==
    /\ location.pathname # Null
    /\ ~guard.mounted \/ guard.skip # isLoginPage
    /\ IF isAuthenticatedThrows
       THEN /\ guard' = Unmounted
            /\ timers' = unmountGuard.timers
            /\ listeners' = unmountGuard.listeners
            /\ UNCHANGED <<intervalRef, mirror, pendingNav>>
       ELSE LET before == [st |-> Store, timers |-> timers,
                           intervalRef |-> intervalRef, listeners |-> listeners,
                           cleanup |-> guard.cleanup]
                hook == useAuthGuardEffect(isLoginPage, cleanupEffect(before))
                st == authGuardEffect(isLoginPage, hook.st)
            IN  /\ guard' = [mounted |-> TRUE, skip |-> isLoginPage, cleanup |-> hook.cleanup,
                              children |-> AuthGuardRender(isLoginPage)]
                /\ timers' = hook.timers
                /\ intervalRef' = hook.intervalRef
                /\ listeners' = hook.listeners
                /\ mirror' = st.mirror
                /\ pendingNav' = st.nav
    /\ UNCHANGED <<config, session, loginTask, location, form>>

\* React unmounts AuthGuard (teardown of the component tree): the cleanup of its
\* live effect runs; a later mount is a new instance, with a new intervalRef.
Unmount ==
    /\ guard.mounted
    /\ guard' = Unmounted
    /\ timers' = unmountGuard.timers
    /\ listeners' = unmountGuard.listeners
    /\ intervalRef' = 0
    /\ UNCHANGED <<config, session, mirror, loginTask, location, pendingNav, form>>

\* An interval fires: checkAuth().
TimerTick_ClearsFlagMutant ==
    /\ timers # {}
    /\ LET st == checkAuth("interval", Store)
       IN  mirror' = st.mirror /\ pendingNav' = st.nav
    /\ sessionStorage' = validateSession.storage
    /\ UNCHANGED <<config, flagBy, loginTask, location, subscription, form>>
TimerTick ==
    /\ timers # {}
    /\ LET st == checkAuth("interval", Store)
       IN  mirror' = st.mirror /\ pendingNav' = st.nav
    /\ UNCHANGED <<config, session, loginTask, location, subscription, form>>

\* A storage-change notification arrives: every registered listener runs.
StorageEventFor(key) ==
    /\ LET st == IF listeners # {}
                 THEN handleStorageChange(key, Store)
                 ELSE Store
       IN  mirror' = st.mirror /\ pendingNav' = st.nav
    /\ UNCHANGED <<config, session, loginTask, location, subscription, form>>

StorageEvent == \E key \in StorageKeys \cup {Null} : StorageEventFor(key)

Next ==
    \/ LoginCall
    \/ Submit
    \/ LoginResume
    \/ LoginSettle
    \/ SubmitSettle
    \/ LogoutCall
    \/ ValidateSessionCall
    \/ Tamper
    \/ UserNavigate
    \/ RouteBeforeLoad
    \/ GuardEffects
    \/ Unmount
    \/ TimerTick
    \/ StorageEvent

Spec == Init /\ [][Next]_vars

----------------------------------------------------------------------------
(* Two tabs.  Each tab is a top-level browsing context with a session storage
   area of its own: the second tab's login() and logout() write its area, not
   this tab's, and a change of a session storage area is notified only to
   documents that share the area, which two tabs do not. *)

\* login() succeeds in the second tab: sessionStorage.setItem(key, marker) there.
SiblingLogin ==
    /\ siblingStorage[AUTH_SESSION_KEY] # Marker
    /\ siblingStorage' = [siblingStorage EXCEPT ![AUTH_SESSION_KEY] = Marker]
    /\ UNCHANGED <<env, cryptoSubtle, storageAvailable, logoutModal, session, mirror, loginTask,
                   location, pendingNav, subscription, form>>

\* logout() runs in the second tab: sessionStorage.removeItem(key) there.
SiblingLogout ==
    /\ siblingStorage' = logoutStorage(siblingStorage)
    /\ UNCHANGED <<env, cryptoSubtle, storageAvailable, logoutModal, session, mirror, loginTask,
                   location, pendingNav, subscription, form>>

----------------------------------------------------------------------------
(* Storage that becomes unavailable *)

\* Access to window.sessionStorage is denied from now on (the user blocks site
\* data, a sandbox or policy revokes it): every later access throws.
StorageFails ==
    /\ storageAvailable
    /\ storageAvailable' = FALSE
    /\ UNCHANGED <<env, cryptoSubtle, siblingStorage, logoutModal, session, mirror, loginTask,
                   location, pendingNav, subscription, form>>

NextStorage ==
    \/ Next
    \/ StorageFails

SpecStorage == Init /\ [][NextStorage]_vars

NextTabs ==
    \/ Next
    \/ SiblingLogin
    \/ SiblingLogout

\* The two tabs of an application whose credentials are configured.
InitTabs == Init /\ isAuthRequired

SpecTabs == InitTabs /\ [][NextTabs]_vars

----------------------------------------------------------------------------
(* src/components/biz/InsHeader.tsx: the header's logout control *)

call(name, st) == [st EXCEPT !.calls = Append(@, name)]

\* The onClick of the dialog's logout button, on the store's flag and the router.
onConfirmClick_NavigateFirstMutant(st) ==
    call("modals.close",
         setAuthenticated(FALSE,
                          call("logout", navigate(Nav(LOGIN, Null, FALSE, "header"), st))))
onConfirmClick(st) ==
    navigate(Nav(LOGIN, Null, FALSE, "header"),
             call("modals.close", setAuthenticated(FALSE, call("logout", st))))

\* The header shows the logout control on the application's pages when
\* authentication is required; handleLogout opens the confirmation.
HandleLogout ==
    /\ location.pathname \notin {Null, LOGIN}
    /\ isAuthRequired
    /\ ~logoutModal
    /\ logoutModal' = TRUE
    /\ UNCHANGED <<env, cryptoSubtle, storageAvailable, siblingStorage, session, mirror,
                   loginTask, location, pendingNav, subscription, form>>

\* The user confirms: logout(), setAuthenticated(false), modals.close,
\* navigate({to: "/login"}).  (Where logout() throws the handler ends there.)
ConfirmLogout ==
    /\ logoutModal
    /\ logout
    /\ IF storageAvailable
       THEN LET st == onConfirmClick(Store)
            IN  /\ mirror' = st.mirror
                /\ pendingNav' = st.nav
                /\ logoutModal' = FALSE
       ELSE UNCHANGED <<mirror, pendingNav, logoutModal>>
    /\ UNCHANGED <<env, cryptoSubtle, storageAvailable, siblingStorage, loginTask, location,
                   subscription, form>>

\* The user cancels: modals.close.
CancelLogout ==
    /\ logoutModal
    /\ logoutModal' = FALSE
    /\ UNCHANGED <<env, cryptoSubtle, storageAvailable, siblingStorage, session, mirror,
                   loginTask, location, pendingNav, subscription, form>>

NextHeader ==
    \/ Next
    \/ HandleLogout
    \/ ConfirmLogout
    \/ CancelLogout

SpecHeader == Init /\ [][NextHeader]_vars

----------------------------------------------------------------------------
(* Session loss with no login after it.  The application has credentials
   configured, the user has logged in through the form and is on one of its
   pages with the guard armed; from there on nobody logs in and nothing stores
   the marker again.  The timer fires while it is active, React runs a pending
   effect, and the router resolves a pending navigation and completes one that
   the gate admits, however often the user starts another. *)

InitLoss ==
    /\ env = [VITE_AUTH_USERNAME |-> Str(<<"admin">>), VITE_AUTH_PASSWORD |-> Str(<<"secret">>),
              BASE_URL |-> HOME]
    /\ cryptoSubtle = TRUE
    /\ storageAvailable = TRUE
    /\ siblingStorage = [k \in StorageKeys |-> Null]
    /\ logoutModal = FALSE
    /\ sessionStorage = [k \in StorageKeys |-> IF k = AUTH_SESSION_KEY THEN Marker ELSE Null]
    /\ mirror = TRUE
    /\ loginTask = Idle
    /\ flagBy = "login"
    /\ \E pathname \in Pathnames \ {LOGIN} : location = [pathname |-> pathname, redirect |-> Null]
    /\ pendingNav = NoNav
    /\ guard = [mounted |-> TRUE, skip |-> FALSE, cleanup |-> 1, children |-> TRUE]
    /\ timers = {1}
    /\ intervalRef = 1
    /\ listeners = {1}
    /\ form = FormInit

\* An edit of the session key that does not store the marker.
TamperInvalid == Tamper /\ sessionStorage'[AUTH_SESSION_KEY] # Marker

\* The router completes a navigation: the gate admits the target.
RouteCommit == RouteBeforeLoad /\ pendingNav' = NoNav

NextLoss ==
    \/ LogoutCall
    \/ ValidateSessionCall
    \/ TamperInvalid
    \/ UserNavigate
    \/ RouteBeforeLoad
    \/ GuardEffects
    \/ Unmount
    \/ TimerTick
    \/ StorageEvent

SpecLoss ==
    /\ InitLoss
    /\ [][NextLoss]_vars
    /\ WF_vars(TimerTick)
    /\ WF_vars(GuardEffects)
    /\ WF_vars(RouteBeforeLoad)
    /\ SF_vars(RouteCommit)

----------------------------------------------------------------------------
(* Properties *)

Flag == sessionStorage[AUTH_SESSION_KEY]
\* The hook's effect is live: its interval runs and its listener is registered.
Armed == guard.mounted /\ ~guard.skip /\ timers # {} /\ listeners # {}
CorrectUsername(task) == task.username = env.VITE_AUTH_USERNAME
CorrectPassword(task) == task.password = env.VITE_AUTH_PASSWORD

\* C1: when the gate runs for a target other than /login while authentication is
\* required and the session is not authenticated, the target is not committed
\* (the location stays as it was) and the router is sent to /login with
\* search.redirect equal to the requested pathname.
C1_GateRedirectsToLogin ==
    [][(RouteBeforeLoad /\ pendingNav.to # LOGIN /\ isAuthRequired /\ ~isAuthenticated)
        => /\ location' = location
           /\ pendingNav'.to = LOGIN
           /\ pendingNav'.redirect = pendingNav.to]_vars

C1_Witness ==
    /\ isAuthRequired /\ ~isAuthenticated
    /\ pendingNav = Nav(LOGIN, INSTANCE_PAGE, TRUE, "gate")
    /\ location.pathname # INSTANCE_PAGE

\* C2: with authentication required, an Armed guard and the session flag no
\* longer the marker, the next timer tick, and any storage notification whose key
\* is the session key or null, sets the store's flag to false and issues the
\* replace-navigation to /login: in every such state each of the three handlers
\* runs and ends in the tripped state.
Tripped ==
    /\ mirror = FALSE
    /\ pendingNav.to = LOGIN
    /\ pendingNav.replace
    /\ pendingNav.by \in {"mount", "interval", "storage"}

C2_GuardConvergence ==
    (isAuthRequired /\ ~isAuthenticated /\ Armed)
        => /\ ENABLED (TimerTick /\ Tripped')
           /\ ENABLED (StorageEventFor(AUTH_SESSION_KEY) /\ Tripped')
           /\ ENABLED (StorageEventFor(Null) /\ Tripped')

C2_Witness ==
    /\ isAuthRequired /\ Armed
    /\ location.pathname = INSTANCE_PAGE
    /\ Flag = Null /\ flagBy = "tamper"
    /\ mirror = FALSE
    /\ pendingNav = Nav(LOGIN, Null, TRUE, "interval")

\* C3: isAuthenticated() is true only if authentication is not required or the
\* session key holds exactly the marker; with authentication required, any other
\* stored value (absent or foreign) gives false.
C3_AuthenticatedOnlyWithMarker ==
    /\ isAuthenticated => (~isAuthRequired \/ Flag = Marker)
    /\ (isAuthRequired /\ Flag # Marker) => ~isAuthenticated

C3_Witness ==
    /\ isAuthRequired
    /\ Flag = Str(<<"true">>)
    /\ ~isAuthenticated

\* C4: with credentials configured, a login call with the expected username and
\* password whose digests are computed resolves true with the session key set to
\* the marker, whatever the key held; and it is rejected only where the platform
\* has no digest.
C4_LoginCorrectSetsFlag ==
    /\ [](loginTask.pc = "rejected" => ~cryptoSubtle)
    /\ [][(LoginResume /\ isAuthRequired /\ CorrectUsername(loginTask)
            /\ CorrectPassword(loginTask))
           => /\ loginTask'.pc = "resolved"
              /\ loginTask'.result = TRUE
              /\ Flag' = Marker]_vars

C4_Witness ==
    /\ isAuthRequired
    /\ loginTask.pc = "resolved" /\ loginTask.result
    /\ CorrectUsername(loginTask) /\ CorrectPassword(loginTask)
    /\ Flag = Marker /\ flagBy = "login"

\* C5: with credentials configured, a login call whose username or password is
\* not the expected one never changes the session key, at its start or at its
\* resumption, and resolves false.
C5_LoginWrongLeavesFlag ==
    [][(/\ isAuthRequired
        /\ \/ LoginCall \/ Submit
           \/ (LoginResume /\ (~CorrectUsername(loginTask) \/ ~CorrectPassword(loginTask))))
        => /\ sessionStorage' = sessionStorage
           /\ (loginTask'.pc = "resolved" => loginTask'.result = FALSE)]_vars

C5_Witness ==
    /\ isAuthRequired
    /\ loginTask.pc = "resolved" /\ ~loginTask.result
    /\ CorrectUsername(loginTask) /\ ~CorrectPassword(loginTask)
    /\ Flag = Marker

\* C6: when the expected username or the expected password is empty or missing,
\* isAuthRequired() is false and isAuthenticated() is true in every reachable
\* state, whatever the session key holds.
C6_OpenAccess ==
    (~Truthy(env.VITE_AUTH_USERNAME) \/ ~Truthy(env.VITE_AUTH_PASSWORD))
        => (~isAuthRequired /\ isAuthenticated)

C6_Witness ==
    /\ env.VITE_AUTH_USERNAME = Undefined
    /\ Truthy(env.VITE_AUTH_PASSWORD)
    /\ Flag = Str(<<"true">>)
    /\ isAuthenticated

\* C7: isAuthRequired() is true exactly when both configuration values are
\* strings with content.
C7_AuthRequiredIffBoth ==
    isAuthRequired <=>
        /\ env.VITE_AUTH_USERNAME \notin {Undefined, Null, Str(<<>>)}
        /\ env.VITE_AUTH_PASSWORD \notin {Undefined, Null, Str(<<>>)}

C7_Witness ==
    /\ env.VITE_AUTH_USERNAME = Str(<<"admin">>)
    /\ env.VITE_AUTH_PASSWORD = Str(<<>>)
    /\ ~isAuthRequired

\* C8: when authentication is not required, a login call with any username and
\* password sets the session key to the marker and resolves true at once.
C8_OpenLogin ==
    [][((LoginCall \/ Submit) /\ ~isAuthRequired)
        => /\ loginTask'.pc = "resolved"
           /\ loginTask'.result = TRUE
           /\ Flag' = Marker]_vars

C8_Witness ==
    /\ ~isAuthRequired
    /\ loginTask.pc = "resolved" /\ loginTask.result
    /\ ~CorrectUsername(loginTask)
    /\ Flag = Marker /\ flagBy = "login"

\* C9: logout() leaves the session key absent whatever it held, and a second
\* logout() leaves the storage as the first left it.
C9_LogoutIdempotent ==
    [][LogoutCall
        => /\ Flag' = Null
           /\ logoutStorage(sessionStorage') = sessionStorage']_vars

C9_Witness ==
    /\ Flag = Null /\ flagBy = "logout"
    /\ mirror = TRUE

\* C10: with authentication required, isAuthenticated() is true right after a
\* login resolves true, and false right after a logout.
C10_RoundTrip ==
    [][/\ (isAuthRequired /\ LoginResume /\ loginTask'.result) => isAuthenticated'
       /\ (isAuthRequired /\ LogoutCall) => ~isAuthenticated']_vars

C10_Witness ==
    /\ isAuthRequired
    /\ loginTask.pc = "resolved" /\ loginTask.result
    /\ flagBy = "logout"
    /\ ~isAuthenticated

\* C11: no redirect loop.  A guard whose effect ran with skipMonitoring true (it
\* is mounted on /login) holds no timer and no storage listener; no timer tick
\* and no storage notification then changes the store's flag or issues a
\* navigation; and when AuthGuard's effects run on /login no navigation is
\* issued and the hook leaves the flag to AuthGuard's own synchronisation.
C11_NoRedirectLoop ==
    /\ []((guard.mounted /\ guard.skip) => (timers = {} /\ listeners = {}))
    /\ [][((TimerTick \/ StorageEvent) /\ guard.mounted /\ guard.skip)
            => (mirror' = mirror /\ pendingNav' = pendingNav)]_vars
    /\ [][(GuardEffects /\ isLoginPage)
            => /\ pendingNav' = pendingNav
               /\ timers' = {} /\ listeners' = {}
               /\ mirror' = authGuardEffect(TRUE, Store).mirror]_vars

\* The guard was armed on a protected page, the session was lost, the guard
\* sent the router to /login, and its effect ran again there with skip true.
C11_Witness ==
    /\ isAuthRequired /\ ~isAuthenticated
    /\ isLoginPage /\ guard.mounted /\ guard.skip
    /\ intervalRef # 0 /\ timers = {} /\ listeners = {}
    /\ pendingNav = NoNav /\ ~mirror

\* C12: when the gate runs for the target /login while authentication is
\* required and the session is not authenticated, the navigation is allowed:
\* /login is committed as the location and no redirect is issued.
C12_GateAllowsLogin ==
    [][(RouteBeforeLoad /\ pendingNav.to = LOGIN /\ isAuthRequired /\ ~isAuthenticated)
        => /\ location'.pathname = LOGIN
           /\ location'.redirect = pendingNav.redirect
           /\ pendingNav' = NoNav]_vars

\* /login was committed for a session whose key was never written.
C12_Witness ==
    /\ isAuthRequired /\ ~isAuthenticated /\ flagBy = "none"
    /\ isLoginPage /\ pendingNav = NoNav

\* C13: when the gate runs for the target /login while authentication is
\* required and the session is authenticated, /login is not committed: the
\* location stays as it was and the router is sent to "/".
C13_GateRedirectsAuthenticatedFromLogin ==
    [][(RouteBeforeLoad /\ pendingNav.to = LOGIN /\ isAuthRequired /\ isAuthenticated)
        => /\ location' = location
           /\ pendingNav'.to = HOME
           /\ pendingNav'.by = "gate"]_vars

\* The user, logged in and on a protected page, asked for /login and the gate
\* answered with the redirect to "/".
C13_Witness ==
    /\ isAuthRequired /\ isAuthenticated
    /\ location.pathname = INSTANCE_PAGE
    /\ pendingNav = Nav(HOME, Null, TRUE, "gate")

\* C14: with authentication disabled (credentials not both configured), a
\* navigation to /login is allowed by the gate: /login is committed as the
\* location and the router is not sent elsewhere.
C14_LoginAccessibleWhenDisabled ==
    [][(RouteBeforeLoad /\ pendingNav.to = LOGIN /\ ~isAuthRequired)
        => /\ location'.pathname = LOGIN
           /\ pendingNav' = NoNav]_vars

\* C15: when the guard trips on a protected path P (its timer, its storage
\* listener or its mount check finds the session not authenticated while the
\* location is P, not /login), the store's flag is false and the navigation to
\* /login it issued carries P as search.redirect.
C15_TripRecordsReturnPath ==
    (/\ pendingNav.by \in {"mount", "interval", "storage"}
     /\ location.pathname \notin {Null, LOGIN})
        => (~mirror /\ pendingNav.to = LOGIN /\ pendingNav.redirect = location.pathname)

\* C18: with authentication required and the digest primitive failing, a
\* submitted login ends as a login failure: login() rejects without touching
\* the session key, and handleSubmit, resumed with the rejection, leaves the
\* session key as it is, sets the store's flag to false, shows the error, clears
\* the loading state, issues no navigation and is ready for another attempt.
C18_DigestFailureIsLoginFailure ==
    /\ [][(Submit /\ isAuthRequired /\ ~cryptoSubtle)
            => (loginTask'.pc = "rejected" /\ sessionStorage' = sessionStorage)]_vars
    /\ [][(SubmitSettle /\ loginTask.pc = "rejected")
            => /\ sessionStorage' = sessionStorage
               /\ ~mirror'
               /\ form'.error /\ ~form'.loading
               /\ loginTask' = Idle
               /\ pendingNav' = pendingNav]_vars

\* A submitted login was rejected for want of the digest and the form is back,
\* showing the error, not loading, with no login in flight.
C18_Witness ==
    /\ isAuthRequired /\ ~cryptoSubtle
    /\ isLoginPage /\ form = [loading |-> FALSE, error |-> TRUE]
    /\ loginTask = Idle /\ ~mirror /\ Flag = Null /\ flagBy = "none"

BaseUrl == IF Truthy(env.BASE_URL) THEN env.BASE_URL ELSE HOME

\* C19: getRedirectUrl() returns the ?redirect= target of the current URL only
\* when that target starts with the base URL; for a missing, empty or foreign
\* target it returns the base URL.  Hence the navigation handleSubmit issues
\* after a successful login always targets a URL that starts with the base URL.
C19_RedirectTargetValidated ==
    /\ LET redirect == location.redirect
       IN  /\ (Truthy(redirect) /\ StartsWith(redirect, BaseUrl)) => getRedirectUrl = redirect
           /\ ~(Truthy(redirect) /\ StartsWith(redirect, BaseUrl)) => getRedirectUrl = BaseUrl
           /\ StartsWith(getRedirectUrl, BaseUrl)
    /\ pendingNav.by = "login" => StartsWith(pendingNav.to, BaseUrl)

\* A login succeeded on /login?redirect=https://evil.example and handleSubmit
\* navigated to the base URL.
C19_Witness ==
    /\ isLoginPage
    /\ location.redirect = Str(<<"https:", "/", "/", "evil.example">>)
    /\ pendingNav = Nav(HOME, Null, TRUE, "login")
    /\ mirror

\* C20: return to the original route.  With authentication required and the
\* session not authenticated, a navigation to a protected path P is answered by
\* the gate with a redirect to /login that carries P, and /login is committed
\* with that search; a successful login submitted from that page sets the
\* store's flag and navigates to P, not to the default location; and the gate,
\* finding the session authenticated, commits P.
C20_ReturnToOriginalRoute ==
    /\ [][(RouteBeforeLoad /\ isAuthRequired /\ ~isAuthenticated /\ pendingNav.to # LOGIN)
            => pendingNav' = Nav(LOGIN, pendingNav.to, TRUE, "gate")]_vars
    /\ [][(RouteBeforeLoad /\ isAuthRequired /\ ~isAuthenticated /\ pendingNav.by = "gate"
              /\ pendingNav.to = LOGIN)
            => location' = [pathname |-> LOGIN, redirect |-> pendingNav.redirect]]_vars
    /\ [][(SubmitSettle /\ loginTask.pc = "resolved" /\ loginTask.result
              /\ isLoginPage /\ location.redirect \in Pathnames \ {LOGIN})
            => (mirror' /\ pendingNav' = Nav(location.redirect, Null, TRUE, "login"))]_vars
    /\ [][(RouteBeforeLoad /\ pendingNav.by = "login" /\ pendingNav.to # LOGIN
              /\ isAuthenticated)
            => (location'.pathname = pendingNav.to /\ pendingNav' = NoNav)]_vars

\* A login succeeded on /login?redirect=/ins/0 and handleSubmit navigated to
\* /ins/0 with the marker stored.
C20_Witness ==
    /\ isAuthRequired /\ isAuthenticated /\ flagBy = "login" /\ mirror
    /\ isLoginPage /\ location.redirect = INSTANCE_PAGE
    /\ pendingNav = Nav(INSTANCE_PAGE, Null, TRUE, "login")

\* What the guard's next timer tick, and a storage notification for the session
\* key, would do in the current state.
TickOutcome == checkAuth("interval", Store)
StorageOutcome == handleStorageChange(AUTH_SESSION_KEY, Store)

\* C16: multi-tab logout.  With authentication required and the application
\* authenticated in two tabs, a logout in the second tab makes the Armed guard
\* of this tab redirect to /login: after that logout the guard's handler for a
\* storage notification, and its next timer tick, set the store's flag to
\* false and issue the replace-navigation to /login.
C16_MultiTabLogout ==
    [][(SiblingLogout /\ siblingStorage[AUTH_SESSION_KEY] = Marker
           /\ isAuthRequired /\ isAuthenticated /\ Armed)
        => /\ (~StorageOutcome.mirror /\ StorageOutcome.nav = Nav(LOGIN, Null, TRUE, "storage"))'
           /\ (~TickOutcome.mirror /\ TickOutcome.nav = Nav(LOGIN, Null, TRUE, "interval"))']_vars

\* How a call of isAuthenticated() ends in the current state.
isAuthenticatedOutcome ==
    IF isAuthenticatedThrows THEN "throws" ELSE IF isAuthenticated THEN "true" ELSE "false"

\* C17: storage unavailable is treated as flag absent.  With authentication
\* required and the read of the session flag failing, isAuthenticated() yields
\* false, and each trigger of an Armed guard (its timer tick, a storage
\* notification for the session key) completes as for a session that is not
\* authenticated: the store's flag is set to false and the replace-navigation to
\* /login is issued.
C17_StorageUnavailableIsUnauthenticated ==
    (isAuthRequired /\ ~storageAvailable /\ Armed)
        => /\ isAuthenticatedOutcome = "false"
           /\ ENABLED (TimerTick /\ Tripped')
           /\ ENABLED (StorageEventFor(AUTH_SESSION_KEY) /\ Tripped')

\* C21: the store's flag never stays diverged from the session flag.  After
\* every validity check of the guard (the check at mount, a timer tick, a
\* storage notification for the session key), whether it found the session
\* valid or not, the store's flag equals isAuthenticated().
C21_MirrorFollowsFlag ==
    /\ [](Armed => /\ ENABLED (TimerTick /\ (mirror = isAuthenticated)')
                   /\ ENABLED (StorageEventFor(AUTH_SESSION_KEY) /\ (mirror = isAuthenticated)'))
    /\ [][GuardEffects => (mirror = isAuthenticated)']_vars

\* AuthGuard displays its children on a path other than /login.
ProtectedContentShown == guard.mounted /\ guard.children /\ ~isLoginPage

\* C22: no protected content is shown without a session.  In every state with
\* authentication required, AuthGuard's children are displayed on a path other
\* than /login only while the session key holds the marker, the time between
\* the clearing of the key and the guard's next check included.
C22_NoProtectedContentWithoutSession ==
    (isAuthRequired /\ ProtectedContentShown) => Flag = Marker

\* C23: the session flag is changed only by login and logout.  Every guard
\* trigger (the check at mount, a timer tick, a storage notification), the
\* AuthGuard component and the gate leave sessionStorage and the credential
\* configuration as they are; isAuthRequired() and isAuthenticated() are reads.
\* The steps that change sessionStorage are login's, logout's (called directly,
\* by validateSession or by the header's logout control) and an edit from
\* outside the application.
C23_FlagChangedOnlyByLoginLogout ==
    /\ [][(TimerTick \/ StorageEvent \/ GuardEffects \/ RouteBeforeLoad)
            => UNCHANGED <<sessionStorage, env>>]_vars
    /\ [][(sessionStorage' # sessionStorage)
            => (LoginCall \/ Submit \/ LoginResume \/ LogoutCall \/ ValidateSessionCall
                \/ ConfirmLogout \/ Tamper)]_vars
    /\ [][env' = env]_vars

\* The guard tripped on a foreign value of the session key and left it there.
C23_Witness ==
    /\ isAuthRequired /\ Flag = Str(<<"true">>)
    /\ Armed /\ ~mirror /\ pendingNav = Nav(LOGIN, Null, TRUE, "interval")

\* C24: validateSession() returns true exactly when the session is valid: its
\* result equals isAuthenticated().  When it returns false the session key is
\* absent afterwards, whatever it held; when it returns true sessionStorage is
\* unchanged.  The call leaves sessionStorage as the function says.
C24_ValidateSession ==
    /\ [](/\ validateSession.result = isAuthenticated
          /\ ~validateSession.result => validateSession.storage[AUTH_SESSION_KEY] = Null
          /\ validateSession.result => validateSession.storage = sessionStorage)
    /\ [][ValidateSessionCall => sessionStorage' = validateSession.storage]_vars

\* validateSession() found a session invalid and removed the key.
C24_Witness ==
    /\ isAuthRequired /\ flagBy = "validate" /\ Flag = Null /\ ~isAuthenticated

\* C25: unmounting the guard, whatever its state, cancels its timer and removes
\* its storage listener.  While no guard is mounted there is no timer and no
\* listener, and no timer tick or storage notification changes the store's flag
\* or issues a navigation.  A later mount starts from the decision at mount: no
\* timer and no listener on /login, else armed after a check that has already
\* redirected a session found invalid.
C25_UnmountCancels ==
    /\ [][Unmount => (timers' = {} /\ listeners' = {} /\ ~guard'.mounted)]_vars
    /\ [](~guard.mounted => (timers = {} /\ listeners = {}))
    /\ [][((TimerTick \/ StorageEvent) /\ ~guard.mounted)
            => UNCHANGED <<mirror, pendingNav>>]_vars
    /\ [][(GuardEffects /\ ~guard.mounted)
            => IF isLoginPage
               THEN timers' = {} /\ listeners' = {} /\ guard'.skip
               ELSE /\ Armed'
                    /\ (isAuthRequired /\ ~isAuthenticated)
                          => (~mirror' /\ pendingNav'.to = LOGIN /\ pendingNav'.replace)]_vars

\* The guard tripped on a timer tick and was unmounted before the navigation
\* landed: nothing of it is left.
C25_Witness ==
    /\ ~guard.mounted /\ timers = {} /\ listeners = {}
    /\ pendingNav = Nav(LOGIN, Null, TRUE, "interval")

\* C26: once the guard has tripped it is inert until it is mounted again: while
\* it stays mounted, a further timer tick or storage notification issues no
\* other navigation and does not write the store's flag again.
C26_TrippedGuardIsInert ==
    [][((TimerTick \/ StorageEvent) /\ guard.mounted /\ Tripped)
        => UNCHANGED <<mirror, pendingNav>>]_vars

MountCheckOutcome == checkAuth("mount", Store)

\* C27: trip ordering.  Whenever a validity check of the guard (at mount, on a
\* timer tick, on a storage notification) finds authentication required and the
\* session not authenticated, it sets the store's flag to false first and then
\* issues the navigation to /login, and that navigation replaces the history
\* entry: it is not a push.
C27_TripOrdering ==
    (isAuthRequired /\ ~isAuthenticated)
        => \A outcome \in {MountCheckOutcome, TickOutcome, StorageOutcome} :
              /\ outcome.calls = <<"setAuthenticated", "navigate">>
              /\ ~outcome.mirror
              /\ outcome.nav.to = LOGIN
              /\ outcome.nav.replace

\* A storage notification tripped the armed guard.
C27_Witness ==
    /\ isAuthRequired /\ ~isAuthenticated /\ Armed /\ ~mirror
    /\ pendingNav = Nav(LOGIN, Null, TRUE, "storage")

\* C28: guard subscription invariant.  In every reachable state the guard owns
\* at most one active timer and at most one registered storage listener; it owns
\* them exactly when it is mounted with skip false; and the timer and listener
\* it owns are those of its latest arming: none of an earlier arming survives.
C28_OneTimerOneListener ==
    /\ Cardinality(timers) <= 1
    /\ Cardinality(listeners) <= 1
    /\ (guard.mounted /\ ~guard.skip) <=> timers # {}
    /\ (guard.mounted /\ ~guard.skip) <=> listeners # {}
    /\ timers # {} => (timers = {intervalRef} /\ listeners = {guard.cleanup})

\* The guard is armed for the second time in the life of one instance (it went
\* through /login in between): it holds the new timer and listener only.
C28_Witness ==
    /\ Armed /\ intervalRef > 1
    /\ timers = {intervalRef} /\ listeners = {intervalRef}

\* What the hook's effect would do if it ran now with skipMonitoring false,
\* after the cleanup of the effect that is live.
ArmingOutcome == useAuthGuardEffect(FALSE, unmountGuard)

\* C29: arming sequence.  With skip false the effect performs one validity
\* check in the mount step itself, before the timer is started and before the
\* listener is registered: a session already invalid at mount has the store's
\* flag set to false and the navigation to /login issued in that step, ahead of
\* setInterval and addEventListener, and the guard ends the step armed.
C29_ArmingSequence ==
    /\ [](ArmingOutcome.st.calls =
             IF isAuthRequired /\ ~isAuthenticated
             THEN <<"setAuthenticated", "navigate", "setInterval", "addEventListener">>
             ELSE <<"setInterval", "addEventListener">>)
    /\ [][(GuardEffects /\ ~isLoginPage)
            => /\ Armed'
               /\ (isAuthRequired /\ ~isAuthenticated)
                     => (~mirror' /\ pendingNav'.to = LOGIN /\ pendingNav'.replace)]_vars

\* The guard mounted on a protected page after logout() had removed the session
\* key: it is armed, the store's flag is false and the navigation to /login is
\* pending before any timer tick.
C29_Witness ==
    /\ isAuthRequired /\ ~isAuthenticated /\ flagBy = "logout"
    /\ Armed /\ location.pathname = HOME
    /\ ~mirror /\ pendingNav = Nav(LOGIN, Null, TRUE, "authGuard")

\* C30: a validity check of the guard that finds the session valid
\* (authentication not required, or the session key equal to the marker) changes
\* nothing: the guard stays armed, the store's flag, sessionStorage and the
\* location are unchanged and no navigation is issued.
C30_ValidCheckChangesNothing ==
    /\ [][((TimerTick \/ StorageEvent) /\ (~isAuthRequired \/ isAuthenticated))
            => UNCHANGED <<mirror, sessionStorage, location, pendingNav, guard, timers,
                           listeners>>]_vars
    /\ []((~isAuthRequired \/ isAuthenticated)
            => (TickOutcome = Store /\ StorageOutcome = Store /\ MountCheckOutcome = Store))

\* The guard tripped, the session became valid again before the navigation
\* landed, and the armed guard's checks leave the store's flag false.
C30_Witness ==
    /\ isAuthRequired /\ isAuthenticated /\ Armed
    /\ ~mirror /\ pendingNav = Nav(LOGIN, Null, TRUE, "interval")

\* C31: storage-event filtering.  The handler of a storage notification runs
\* the validity check exactly when the notification's key is the session key
\* or null: for those keys it does what checkAuth does, and for any other key
\* it makes no call, leaves the store's flag and the router as they are, even
\* when authentication is required and the session is not authenticated; and
\* no step of a notification for another key changes anything.
C31_StorageEventFiltering ==
    /\ [](/\ \A key \in {AUTH_SESSION_KEY, Null} :
                handleStorageChange(key, Store) = checkAuth("storage", Store)
          /\ handleStorageChange(OtherKey, Store) = Store
          /\ (isAuthRequired /\ ~isAuthenticated)
                => \A key \in {AUTH_SESSION_KEY, Null} :
                      handleStorageChange(key, Store).calls = <<"setAuthenticated", "navigate">>)
    /\ [][StorageEventFor(OtherKey) => UNCHANGED vars]_vars

\* The session key was removed under an armed guard that has not checked yet:
\* the store's flag is still true and no navigation is pending, which is how a
\* notification for another key leaves it.
C31_Witness ==
    /\ isAuthRequired /\ ~isAuthenticated /\ Armed
    /\ location.pathname = INSTANCE_PAGE
    /\ mirror /\ pendingNav = NoNav

\* A validity check of the guard trips: it sets the store's flag to false and
\* navigates to /login.
Trips(outcome) ==
    /\ outcome.calls = <<"setAuthenticated", "navigate">>
    /\ outcome.nav.to = LOGIN

\* C32: the gate and the guard apply the same validity test.  In every state,
\* for every target other than /login, beforeLoad answers with the redirect to
\* /login exactly when a validity check of the guard run in that state (at
\* mount, on a timer tick, on a storage notification) would trip; and a step of
\* the gate for such a target sends the router to /login exactly in those states.
C32_GateAndGuardAgree ==
    /\ [](\A pathname \in Pathnames \ {LOGIN} :
            \A outcome \in {MountCheckOutcome, TickOutcome, StorageOutcome} :
               (beforeLoad(pathname) = Redirect(LOGIN, pathname)) <=> Trips(outcome))
    /\ [][(RouteBeforeLoad /\ pendingNav.to # LOGIN)
            => ((pendingNav'.by = "gate" /\ pendingNav'.to = LOGIN) <=> Trips(TickOutcome))]_vars

\* With a foreign value in the session key, the armed guard has tripped (the
\* store's flag is false) and the gate has answered the user's navigation to a
\* protected page with the redirect to /login.
C32_Witness ==
    /\ isAuthRequired /\ Flag = Str(<<"true">>) /\ Armed /\ ~mirror
    /\ location.pathname = HOME
    /\ pendingNav = Nav(LOGIN, INSTANCE_PAGE, TRUE, "gate")

\* C33: logout is not undone by an in-flight login.  With authentication
\* required, in the state a logout() leaves, isAuthenticated() is false and the
\* resumption of a login that is suspended in its digest computation (it was
\* started before that logout) does not make isAuthenticated() true.
C33_LogoutNotUndoneByInFlightLogin ==
    [][(LogoutCall /\ isAuthRequired)
        => /\ ~isAuthenticated'
           /\ ~(ENABLED (LoginResume /\ isAuthenticated'))']_vars

\* C34: gate termination.  In every state, for every target path, the target
\* of a redirect that beforeLoad issues (/login, or "/") is admitted by
\* beforeLoad in that same state, so a navigation settles after at most one
\* redirect of the gate; and after every gate step that ended in a redirect the
\* gate admits the pending target.
C34_GateTermination ==
    /\ [](\A pathname \in Pathnames :
            beforeLoad(pathname).kind = "redirect"
               => /\ beforeLoad(pathname).to \in {LOGIN, HOME}
                  /\ beforeLoad(beforeLoad(pathname).to) = Allow)
    /\ [][(RouteBeforeLoad /\ pendingNav'.by = "gate")
            => (beforeLoad(pendingNav.to) = Allow)']_vars

\* The application, configured without credentials, was opened at /login and
\* the gate answered with the redirect to "/", which it admits.
C34_Witness ==
    /\ ~isAuthRequired /\ location = NoLocation
    /\ pendingNav = Nav(HOME, Null, TRUE, "gate")
    /\ beforeLoad(LOGIN) = Redirect(HOME, Null)
    /\ beforeLoad(HOME) = Allow

\* What handleSubmit does when it resumes in the current state.
SubmitOutcome == handleSubmitResumed(Store)
LoginReturnedTrue == loginTask.pc = "resolved" /\ loginTask.result

\* C37: the login form handler.  login() returns true only with the session
\* key set to the marker in that step.  When handleSubmit resumes, the store's
\* flag becomes true exactly when login returned true; on success it calls
\* setAuthenticated(true) and then navigate, a replace navigation to
\* getRedirectUrl(), which starts with the base URL; on a false result or a
\* rejection it calls setAuthenticated(false) only: no navigation is issued and
\* the location stays the same.
C37_LoginFormHandler ==
    /\ [][((LoginCall \/ Submit \/ LoginResume) /\ LoginReturnedTrue') => Flag' = Marker]_vars
    /\ []((loginTask.pc \in {"resolved", "rejected"} /\ loginTask.caller = "form")
            => IF LoginReturnedTrue
               THEN /\ SubmitOutcome.calls = <<"setAuthenticated", "navigate">>
                    /\ SubmitOutcome.mirror
                    /\ SubmitOutcome.nav = Nav(getRedirectUrl, Null, TRUE, "login")
                    /\ StartsWith(SubmitOutcome.nav.to, BaseUrl)
               ELSE /\ SubmitOutcome.calls = <<"setAuthenticated">>
                    /\ ~SubmitOutcome.mirror
                    /\ SubmitOutcome.nav = pendingNav)
    /\ [][SubmitSettle
            => /\ mirror' <=> LoginReturnedTrue
               /\ LoginReturnedTrue
                    => pendingNav' = Nav(getRedirectUrl, Null, TRUE, "login")
               /\ ~LoginReturnedTrue
                    => (pendingNav' = pendingNav /\ location' = location)
               /\ loginTask' = Idle /\ ~form'.loading]_vars

\* A submission with a wrong password completed on /login while the session
\* key held the marker: the store's flag is false, the error is shown, no
\* navigation is pending.
C37_Witness ==
    /\ isAuthRequired /\ isLoginPage /\ loginTask = Idle
    /\ form = [loading |-> FALSE, error |-> TRUE]
    /\ ~mirror /\ pendingNav = NoNav /\ Flag = Marker /\ cryptoSubtle

\* What the dialog's logout button does when it is clicked in the current state.
ConfirmOutcome == onConfirmClick(Store)

\* C36: confirmed logout from the header.  The confirm handler calls logout()
\* first, then setAuthenticated(false), then (the dialog closed) navigate to
\* /login.  After it the session key is absent, the store's flag is false and
\* the navigation to /login is pending; with the session still not
\* authenticated the gate commits /login, and a navigation back to the path
\* that was shown when the user confirmed is answered by the gate with the
\* redirect to /login and AuthGuard renders nothing for it.  Cancelling closes
\* the dialog and changes nothing else.
C36_HeaderLogout ==
    /\ [](ConfirmOutcome.calls = <<"logout", "setAuthenticated", "modals.close", "navigate">>)
    /\ [][ConfirmLogout
            => /\ isAuthRequired
               /\ Flag' = Null /\ ~isAuthenticated'
               /\ ~mirror'
               /\ pendingNav' = Nav(LOGIN, Null, FALSE, "header")
               /\ ~logoutModal'
               /\ (beforeLoad(LOGIN) = Allow)'
               /\ location.pathname # LOGIN
                    => /\ (beforeLoad(location.pathname)
                             = Redirect(LOGIN, location.pathname))'
                       /\ (~AuthGuardRender(FALSE))']_vars
    /\ [][(RouteBeforeLoad /\ pendingNav.by = "header" /\ ~isAuthenticated)
            => (location'.pathname = LOGIN /\ pendingNav' = NoNav)]_vars
    /\ [][(RouteBeforeLoad /\ flagBy = "logout" /\ ~isAuthenticated /\ pendingNav.to # LOGIN)
            => (location' = location /\ pendingNav'.to = LOGIN)]_vars
    /\ [][CancelLogout
            => (~logoutModal' /\ UNCHANGED <<sessionStorage, mirror, location, pendingNav>>)]_vars

\* The user confirmed the logout on a protected page with a valid session and
\* the store's flag true: the key is gone, the flag is false, the dialog is
\* closed and the navigation to /login is pending.
C36_Witness ==
    /\ isAuthRequired /\ Flag = Null /\ flagBy = "logout" /\ ~mirror /\ ~logoutModal
    /\ location.pathname = INSTANCE_PAGE /\ guard.children
    /\ pendingNav = Nav(LOGIN, Null, FALSE, "header")

\* The state the application settles in after a session loss: /login is the
\* location, the store's flag is false, the guard holds no timer and no
\* listener, and no navigation issued by the guard is pending.
Stabilised ==
    /\ isLoginPage
    /\ ~mirror
    /\ timers = {} /\ listeners = {}
    /\ pendingNav.by \notin {"mount", "interval", "storage", "authGuard"}

\* C35: stabilisation after session loss.  With authentication required and
\* the guard armed on a protected path, once the session key no longer holds
\* the marker and no login follows, the application eventually reaches, and
\* from then on stays in, the state where the location is /login, the store's
\* flag is false, the guard is unarmed and no redirect of the guard is pending.
C35_StabilisationAfterSessionLoss ==
    (isAuthRequired /\ ~isAuthenticated) ~> []Stabilised

\* The session key was removed by logout() under the armed guard, the guard's
\* timer redirected, /login was committed and the effect ran again with skip.
C35_Witness ==
    /\ isAuthRequired /\ Flag = Null /\ flagBy = "logout"
    /\ Stabilised /\ pendingNav = NoNav
    /\ guard.mounted /\ guard.skip /\ intervalRef = 1

====
